---- MODULE Spec2Model ----
(***************************************************************************)
(* Model of src/streamlit_app.py (3-minute second-career diagnosis):       *)
(* calc_scores, decide_type, soft_label and the Streamlit submit / rerun   *)
(* flow that holds the result in st.session_state.                         *)
(*                                                                         *)
(* Numbers.  An axis score is a rational, kept as a record                 *)
(* [num |-> n, den |-> d] meaning n/d.  Python's round(x, 2) yields the    *)
(* nearest hundredth, i.e. a record with den = 100.  Thresholds of the     *)
(* code (4.0, 3.6, 4.2, ...) are written in tenths (40, 36, 42, ...).      *)
(***************************************************************************)
EXTENDS Integers, Sequences, FiniteSets, TLC

\* ------------------------------------------------------------------ data
\* Q1..Q10 in the order the script builds the answers dict and calc_scores
\* reads it.
QOrder == <<"Q1", "Q2", "Q3", "Q4", "Q5", "Q6", "Q7", "Q8", "Q9", "Q10">>

Questions == {QOrder[i] : i \in 1..Len(QOrder)}

\* score_map = {label: i for i, label in enumerate(options, start=1)}
score_map == 1..5

\* every st.radio is created with index=2, i.e. score_map[options[2]]
DefaultAnswer == 3

\* keys of the dict calc_scores returns
Axes == {"psychological", "identity", "workstyle", "constraint", "action"}

\* ---------------------------------------------------------------- bounds
\* number of questions whose entry differs from the untouched form
\* (another option chosen, or the key absent) in an input of calc_scores
MaxDeviations == 5

\* denominators of the scores handed to soft_label (besides den = 100)
MaxDen == 12

\* the users change only the first MaxEditable radios of the list
\* (session 1, Q1), (session 2, Q1), (session 1, Q2), (session 2, Q2), ...
MaxEditable == 1

\* rows the answers sink and the clicks sink take
MaxSubmits == 3

MaxClicks == 1

\* --------------------------------------------------------- pure helpers
Frac(n, d) == [num |-> n, den |-> d]

\* x >= t/10, for a score x and a threshold written in tenths
GE(x, t10) == x.num * 10 >= t10 * x.den

\* x <= t/10
LE(x, t10) == x.num * 10 <= t10 * x.den

RECURSIVE SumSeq(_)
SumSeq(vals) == IF vals = <<>> THEN 0 ELSE Head(vals) + SumSeq(Tail(vals))

\* def mean(vals): return sum(vals) / len(vals) if vals else 0.0
mean(vals) == IF Len(vals) > 0 THEN Frac(SumSeq(vals), Len(vals)) ELSE Frac(0, 1)

\* round2 with the digits argument forgotten: round(x), the nearest integer
round2_int(x) ==
    LET q == x.num \div x.den
        r == x.num % x.den
    IN  Frac(100 * (IF 2 * r < x.den THEN q
                    ELSE IF 2 * r > x.den THEN q + 1
                    ELSE IF q % 2 = 0 THEN q ELSE q + 1), 100)

\* round2 cutting the digits off instead of rounding
round2_trunc(x) == Frac((100 * x.num) \div x.den, 100)

\* Python round(x, 2): nearest hundredth, a tie going to the even one
round2(x) ==
    LET n == 100 * x.num
        q == n \div x.den
        r == n % x.den
    IN  Frac(IF 2 * r < x.den THEN q
             ELSE IF 2 * r > x.den THEN q + 1
             ELSE IF q % 2 = 0 THEN q ELSE q + 1, 100)

\* the first key, in reading order, that answers[...] would not find
FirstMissing(answers) ==
    LET idx == {i \in 1..Len(QOrder) : QOrder[i] \notin DOMAIN answers}
    IN  QOrder[CHOOSE i \in idx : \A j \in idx : i <= j]

\* answers.get(q, 3)
GetOrDefault(answers, q) == IF q \in DOMAIN answers THEN answers[q] ELSE DefaultAnswer

\* calc_scores reading absent keys as the neutral option
calc_scores_defaulting(answers) ==
    [ok |-> TRUE,
     scores |-> [psychological |-> round2(mean(<<GetOrDefault(answers, "Q1"),
                                                 GetOrDefault(answers, "Q2")>>)),
                 identity      |-> round2(mean(<<GetOrDefault(answers, "Q3"),
                                                 GetOrDefault(answers, "Q4")>>)),
                 workstyle     |-> round2(mean(<<GetOrDefault(answers, "Q5"),
                                                 GetOrDefault(answers, "Q6"),
                                                 GetOrDefault(answers, "Q7")>>)),
                 constraint    |-> round2(Frac(GetOrDefault(answers, "Q8"), 1)),
                 action        |-> round2(mean(<<GetOrDefault(answers, "Q9"),
                                                 GetOrDefault(answers, "Q10")>>))]]

\* calc_scores with Q8 in the place of Q7 on the workstyle axis
calc_scores_wrongQ(answers) ==
    IF ~(Questions \subseteq DOMAIN answers)
    THEN [ok |-> FALSE, error |-> "KeyError", key |-> FirstMissing(answers)]
    ELSE [ok |-> TRUE,
          scores |-> [psychological |-> round2(mean(<<answers["Q1"], answers["Q2"]>>)),
                      identity      |-> round2(mean(<<answers["Q3"], answers["Q4"]>>)),
                      workstyle     |-> round2(mean(<<answers["Q5"], answers["Q6"],
                                                      answers["Q8"]>>)),
                      constraint    |-> round2(Frac(answers["Q8"], 1)),
                      action        |-> round2(mean(<<answers["Q9"], answers["Q10"]>>))]]

\* calc_scores: a KeyError carrying the first absent key, or the five
\* rounded axis scores
calc_scores(answers) ==
    IF ~(Questions \subseteq DOMAIN answers)
    THEN [ok |-> FALSE, error |-> "KeyError", key |-> FirstMissing(answers)]
    ELSE LET psychological == mean(<<answers["Q1"], answers["Q2"]>>)
             identity      == mean(<<answers["Q3"], answers["Q4"]>>)
             workstyle     == mean(<<answers["Q5"], answers["Q6"], answers["Q7"]>>)
             constraint    == Frac(answers["Q8"], 1)
             action        == mean(<<answers["Q9"], answers["Q10"]>>)
         IN  [ok |-> TRUE,
              scores |-> [psychological |-> round2(psychological),
                          identity      |-> round2(identity),
                          workstyle     |-> round2(workstyle),
                          constraint    |-> round2(constraint),
                          action        |-> round2(action)]]

\* the four rules of decide_type, in the order the code tests them
RuleI(scores) ==
    /\ GE(scores.workstyle, 40)
    /\ GE(scores.psychological, 36)
    /\ GE(scores.constraint, 30)
    /\ GE(scores.action, 36)

RuleP(scores) ==
    /\ GE(scores.psychological, 32)
    /\ GE(scores.constraint, 30)
    /\ GE(scores.workstyle, 30)
    /\ LE(scores.workstyle, 42)

RuleS(scores) ==
    /\ GE(scores.identity, 40)
    /\ GE(scores.workstyle, 35)

\* decide_type without its final return: Python then returns None
decide_type_nodefault(scores) ==
    IF RuleI(scores) THEN "I"
    ELSE IF RuleP(scores) THEN "P"
    ELSE IF RuleS(scores) THEN "S"
    ELSE "None"

\* decide_type testing the P rule before the I rule
decide_type_P_first(scores) ==
    IF RuleP(scores) THEN "P"
    ELSE IF RuleI(scores) THEN "I"
    ELSE IF RuleS(scores) THEN "S"
    ELSE "R"

decide_type(scores) ==
    IF RuleI(scores) THEN "I"
    ELSE IF RuleP(scores) THEN "P"
    ELSE IF RuleS(scores) THEN "S"
    ELSE "R"

\* soft_label with > in the place of >=
soft_label_strict(score) ==
    IF ~LE(score, 45) THEN "clear"
    ELSE IF ~LE(score, 35) THEN "forming"
    ELSE IF ~LE(score, 25) THEN "hints"
    ELSE IF ~LE(score, 15) THEN "confirming"
    ELSE "pause"

\* soft_label: the five sentences are named by a short word each
soft_label(score) ==
    IF GE(score, 45) THEN "clear"
    ELSE IF GE(score, 35) THEN "forming"
    ELSE IF GE(score, 25) THEN "hints"
    ELSE IF GE(score, 15) THEN "confirming"
    ELSE "pause"

\* ----------------------------------------------------------------- state
VARIABLES
    arg,               \* the answers dict passed to calc_scores
    pc,                \* "input", "scored", "failed", "typed" ("idle": unused)
    ret,               \* what calc_scores returned or raised
    ret_type,          \* what decide_type returned
    score_in,          \* the score passed to soft_label
    label_out,         \* what soft_label returned
    answers,           \* per session: the values of the ten radios
    chosen,            \* per session: the questions whose radio the user changed
    session_state,     \* per session: st.session_state (result_type, scores, ai_comment)
    submitted,         \* per session, history: its latest submit (answers, result)
    last_ai,           \* history: how generate_ai_comment ended in the latest submit
    answer_log,        \* answers sink: number of rows, and the row appended last
    click_log          \* clicks sink: number of rows, and the row appended last

pure_vars == <<arg, pc, ret, ret_type>>

label_vars == <<score_in, label_out>>

app_vars == <<answers, chosen, session_state, submitted, last_ai, answer_log,
              click_log>>

vars == <<arg, pc, ret, ret_type, score_in, label_out, answers, chosen,
          session_state, submitted, last_ai, answer_log, click_log>>

None == "none"

\* the untouched form: every radio at its default
DefaultAnswers == [q \in Questions |-> DefaultAnswer]

\* scores on the answer scale 1.0 .. 5.0: every n/d with d up to MaxDen,
\* and every hundredth (the form round(x, 2) produces)
ScoreInputs ==
    UNION { {Frac(n, d) : n \in d..(5 * d)} : d \in (1..MaxDen) \cup {100} }

\* two browser sessions, each with its own st.session_state and widgets
SessionOrder == <<"s1", "s2">>

Sessions == {SessionOrder[i] : i \in 1..Len(SessionOrder)}

\* the i-th radio of the list session 1's Q1, session 2's Q1, session 1's Q2, ...
RadioAt(i) ==
    <<SessionOrder[((i - 1) % Len(SessionOrder)) + 1],
      QOrder[((i - 1) \div Len(SessionOrder)) + 1]>>

Editable == {RadioAt(i) : i \in 1..MaxEditable}

\* ids of load_consultants()
Consultants == {"A", "B", "C"}

APP_VERSION == "second-career-v0.4"

\* how generate_ai_comment can end: a text, a text that strips to nothing,
\* no OPENAI_API_KEY, or an exception inside the call
AiOutcomes == {"ok", "empty", "no_key", "raised"}

\* the three axes the result page draws
ShownAxes == {"psychological", "identity", "workstyle"}

\* st.session_state without the three result keys
NoResult == [has_result |-> FALSE]

PromptView == [kind |-> "prompt"]

\* no value yet (a record-valued variable before its first assignment)
Nothing == <<>>

EmptyLog == [n |-> 0, last |-> Nothing]

PureIdle ==
    /\ arg = DefaultAnswers
    /\ pc = "idle"
    /\ ret = Nothing
    /\ ret_type = None

LabelIdle ==
    /\ score_in = Nothing
    /\ label_out = None

AppIdle ==
    /\ answers = [s \in Sessions |-> DefaultAnswers]
    /\ chosen = [s \in Sessions |-> {}]
    /\ session_state = [s \in Sessions |-> NoResult]
    /\ submitted = [s \in Sessions |-> Nothing]
    /\ last_ai = None
    /\ answer_log = EmptyLog
    /\ click_log = EmptyLog

\* ------------------------------------------- the scoring functions, called
\* calc_scores is called with a dict within MaxDeviations entries of the
\* untouched form; an entry deviates by holding another option or by being
\* absent
InitScore ==
    /\ \E dev \in {d \in SUBSET Questions : Cardinality(d) <= MaxDeviations} :
         \E gone \in SUBSET dev :
            \E ch \in [(dev \ gone) -> (score_map \ {DefaultAnswer})] :
               arg = [q \in (Questions \ gone) |->
                         IF q \in DOMAIN ch THEN ch[q] ELSE DefaultAnswer]
    /\ pc = "input"
    /\ ret = Nothing
    /\ ret_type = None
    /\ LabelIdle
    /\ AppIdle

CalcScores ==
    /\ pc = "input"
    /\ ret' = calc_scores(arg)
    /\ pc' = IF ret'.ok THEN "scored" ELSE "failed"
    /\ UNCHANGED <<arg, ret_type, label_vars, app_vars>>

DecideType ==
    /\ pc = "scored"
    /\ ret_type' = decide_type(ret.scores)
    /\ pc' = "typed"
    /\ UNCHANGED <<arg, ret, label_vars, app_vars>>

NextScore ==
    \/ CalcScores
    \/ DecideType

SpecScore == InitScore /\ [][NextScore]_vars

InitLabel ==
    /\ score_in \in ScoreInputs
    /\ label_out = None
    /\ PureIdle
    /\ AppIdle

SoftLabel ==
    /\ label_out = None
    /\ label_out' = soft_label(score_in)
    /\ UNCHANGED <<score_in, pure_vars, app_vars>>

NextLabel == SoftLabel

SpecLabel == InitLabel /\ [][NextLabel]_vars

\* ------------------------------------------- claims: the scoring functions
Abs(x) == IF x < 0 THEN -x ELSE x

RECURSIVE SumOver(_, _)
SumOver(f, S) ==
    IF S = {} THEN 0
    ELSE LET q == CHOOSE x \in S : TRUE IN f[q] + SumOver(f, S \ {q})

\* the axis configuration as the documentation states it
AxisQuestions ==
    [psychological |-> {"Q1", "Q2"},
     identity      |-> {"Q3", "Q4"},
     workstyle     |-> {"Q5", "Q6", "Q7"},
     constraint    |-> {"Q8"},
     action        |-> {"Q9", "Q10"}]

\* the unrounded mean of an axis
ExactMean(a, ax) == Frac(SumOver(a, AxisQuestions[ax]), Cardinality(AxisQuestions[ax]))

ExactMeans(a) == [ax \in Axes |-> ExactMean(a, ax)]

Types == {"I", "P", "S", "R"}

\* the rules as stated, on rounded scores in hundredths
StatedI(sc) ==
    /\ sc.workstyle.num >= 400
    /\ sc.psychological.num >= 360
    /\ sc.constraint.num >= 300
    /\ sc.action.num >= 360

StatedP(sc) ==
    /\ sc.psychological.num >= 320
    /\ sc.constraint.num >= 300
    /\ sc.workstyle.num >= 300
    /\ sc.workstyle.num <= 420

StatedS(sc) ==
    /\ sc.identity.num >= 400
    /\ sc.workstyle.num >= 350

Complete(a) == DOMAIN a = Questions

Scored == pc \in {"scored", "typed"}

\* C1: classification is total. A complete answer set (every question a
\* value in 1..5) never makes calc_scores or decide_type fail, the category
\* returned is one of I, P, S, R, and it is R when none of the I, P and S
\* rules is satisfied, in particular when all ten answers are 3.
C1_ClassificationTotal ==
    /\ Complete(arg) => pc # "failed"
    /\ pc = "typed" =>
          /\ ret_type \in Types
          /\ (~StatedI(ret.scores) /\ ~StatedP(ret.scores) /\ ~StatedS(ret.scores))
                => ret_type = "R"
          /\ arg = DefaultAnswers => ret_type = "R"

C1_Witness ==
    /\ pc = "typed"
    /\ arg = DefaultAnswers
    /\ ret_type = "R"

\* C2: first match wins in the order I, P, S, R. The category is I exactly
\* when the I rule holds, P exactly when I fails and P holds, S exactly when
\* I and P fail and S holds, and R otherwise.
C2_FirstMatchWins ==
    pc = "typed" =>
       LET i == StatedI(ret.scores)
           p == StatedP(ret.scores)
           e == StatedS(ret.scores)
       IN  /\ \A ax \in Axes : ret.scores[ax].den = 100
           /\ (ret_type = "I") <=> i
           /\ (ret_type = "P") <=> (~i /\ p)
           /\ (ret_type = "S") <=> (~i /\ ~p /\ e)
           /\ (ret_type = "R") <=> (~i /\ ~p /\ ~e)

\* a score tuple that satisfies all three rules, classified I
C2_Witness ==
    /\ pc = "typed"
    /\ StatedI(ret.scores)
    /\ StatedP(ret.scores)
    /\ StatedS(ret.scores)
    /\ ret_type = "I"

\* C3: every axis score calc_scores returns is the arithmetic mean of that
\* axis's configured questions rounded to the nearest hundredth, lies in
\* 1.00 .. 5.00, and the axes' question sets are disjoint.
C3_AxisMeans ==
    /\ \A a1, a2 \in Axes : a1 # a2 => AxisQuestions[a1] \cap AxisQuestions[a2] = {}
    /\ Scored =>
          \A ax \in Axes :
             LET n == Cardinality(AxisQuestions[ax])
                 total == SumOver(arg, AxisQuestions[ax])
                 x == ret.scores[ax]
             IN  /\ x.den = 100
                 /\ 2 * Abs(x.num * n - 100 * total) <= n
                 /\ x.num >= 100
                 /\ x.num <= 500

\* workstyle 11/3 comes out as 3.67
C3_Witness ==
    /\ pc = "scored"
    /\ arg["Q5"] + arg["Q6"] + arg["Q7"] = 11
    /\ ret.scores.workstyle = Frac(367, 100)

\* C5: calc_scores called without one of Q1..Q10 fails with an error that
\* names an absent question and returns no scores; it fails only then.
C5_MissingAnswerFails ==
    /\ (pc # "input" /\ ~Complete(arg)) =>
          /\ pc = "failed"
          /\ ret.ok = FALSE
          /\ ret.error = "KeyError"
          /\ ret.key \in Questions \ DOMAIN arg
          /\ "scores" \notin DOMAIN ret
          /\ ret_type = None
    /\ pc = "failed" => ~Complete(arg)

C5_Witness ==
    /\ pc = "failed"
    /\ DOMAIN arg = Questions \ {"Q10"}
    /\ ret.key = "Q10"

\* C6: rounding does not change the classification. The category returned
\* from the rounded scores is the one the same rules return from the
\* unrounded means.
C6_RoundingKeepsType ==
    pc = "typed" => ret_type = decide_type(ExactMeans(arg))

\* workstyle 13/3 is rounded to 4.33, just above the 4.2 bound of the P rule
C6_Witness ==
    /\ pc = "typed"
    /\ ret.scores.workstyle = Frac(433, 100)
    /\ ExactMean(arg, "psychological") = Frac(7, 2)
    /\ ret_type = "S"

\* C8: a rounded axis score is within 0.005 of the true mean of its answers.
C8_RoundingBound ==
    Scored =>
       \A ax \in Axes :
          LET m == ExactMean(arg, ax)
              x == ret.scores[ax]
          IN  1000 * Abs(x.num * m.den - m.num * x.den) <= 5 * x.den * m.den

\* workstyle 10/3, a non-terminating third
C8_Witness ==
    /\ pc = "scored"
    /\ ExactMean(arg, "workstyle") = Frac(10, 3)
    /\ ret.scores.workstyle = Frac(333, 100)

\* ------------------------------------------------------- claims: labelling
Labels == {"clear", "forming", "hints", "confirming", "pause"}

\* the bands as stated: lower bounds in tenths, descending, then the catch-all
StatedBands ==
    <<[lo |-> 45, label |-> "clear"],
      [lo |-> 35, label |-> "forming"],
      [lo |-> 25, label |-> "hints"],
      [lo |-> 15, label |-> "confirming"]>>

FirstBandLabel(score) ==
    LET hit == {i \in 1..Len(StatedBands) : StatedBands[i].lo * score.den <= 10 * score.num}
    IN  IF hit = {} THEN "pause"
        ELSE StatedBands[CHOOSE i \in hit : \A j \in hit : i <= j].label

\* C7: labelling is total with inclusive lower bounds. For every score in
\* 1.0 .. 5.0 soft_label returns one of its five labels, the label of the
\* first band (4.5, 3.5, 2.5, 1.5, then the catch-all) whose lower bound is
\* at most the score.
C7_LabelBands ==
    label_out # None =>
       /\ label_out \in Labels
       /\ label_out = FirstBandLabel(score_in)

\* a score exactly on a bound
C7_Witness ==
    /\ score_in = Frac(450, 100)
    /\ label_out = "clear"

\* ------------------------------------------------------ the Streamlit app
\* generate_ai_comment: the stripped text, or None
generate_ai_comment(outcome) ==
    IF outcome = "ok" THEN "comment"
    ELSE IF outcome = "empty" THEN ""
    ELSE None

\* x or "" of the submit branch
OrEmpty(x) == IF x = None \/ x = "" THEN "" ELSE x

\* save_answer_row / save_click_row: one row goes to the sheet, or to the CSV
\* file when Sheets is not configured or raised; either way one row is
\* appended, and the two destinations are kept as one sink.  A sink is never
\* read back, so it is kept as its number of rows and the row appended last.
\* (The timestamp column is left out.)
SaveRow(log, row) == [n |-> log.n + 1, last |-> row]

\* a submit that reuses the result held in st.session_state, if there is one
ScoreSubmission_cached(s) ==
    IF session_state[s].has_result
    THEN [scores |-> session_state[s].scores,
          result_type |-> session_state[s].result_type]
    ELSE LET scores == calc_scores(answers[s]).scores
         IN  [scores |-> scores, result_type |-> decide_type(scores)]

\* scores = calc_scores(answers); result_type = decide_type(scores)
ScoreSubmission(s) ==
    LET scores == calc_scores(answers[s]).scores
    IN  [scores |-> scores, result_type |-> decide_type(scores)]

\* the result section of the script: the held result, or the prompt caption
Render(ss) ==
    IF ss.has_result
    THEN [kind |-> "result",
          result_type |-> ss.result_type,
          labels |-> [k \in ShownAxes |-> soft_label(ss.scores[k])],
          ai_shown |-> IF ss.ai_comment # "" THEN ss.ai_comment ELSE "failed_caption"]
    ELSE PromptView

\* what the page of session s shows: every run of the script ends by
\* rendering st.session_state
View(s) == Render(session_state[s])

Init ==
    /\ AppIdle
    /\ PureIdle
    /\ LabelIdle

\* a rerun that rescores the held result whenever a radio changes
PickOption_rescoring(s, q, v) ==
    /\ <<s, q>> \in Editable
    /\ answers[s][q] # v
    /\ chosen' = [chosen EXCEPT ![s] = @ \cup {q}]
    /\ answers' = [answers EXCEPT ![s][q] = v]
    /\ session_state' =
          IF session_state[s].has_result
          THEN LET scores == calc_scores(answers'[s]).scores
               IN  [session_state EXCEPT ![s].scores = scores,
                                         ![s].result_type = decide_type(scores)]
          ELSE session_state
    /\ UNCHANGED <<submitted, last_ai, answer_log, click_log, pure_vars, label_vars>>

\* the user changes the radio of question q to option v; the script reruns
\* with no button pressed
PickOption(s, q, v) ==
    /\ <<s, q>> \in Editable
    /\ answers[s][q] # v
    /\ chosen' = [chosen EXCEPT ![s] = @ \cup {q}]
    /\ answers' = [answers EXCEPT ![s][q] = v]
    /\ UNCHANGED <<session_state, submitted, last_ai, answer_log, click_log,
                   pure_vars, label_vars>>

\* a submit whose run ends, saving and holding nothing, when no comment came
Submit_blocking(s, ai) ==
    /\ answer_log.n < MaxSubmits
    /\ calc_scores(answers[s]).ok
    /\ \E res \in {ScoreSubmission(s)} :
       LET ai_comment == OrEmpty(generate_ai_comment(ai))
           answer_row == [session_id          |-> s,
                          result_type         |-> res.result_type,
                          psychological_score |-> res.scores.psychological,
                          identity_score      |-> res.scores.identity,
                          workstyle_score     |-> res.scores.workstyle,
                          constraint_score    |-> res.scores.constraint,
                          action_score        |-> res.scores.action,
                          ai_comment          |-> ai_comment,
                          app_version         |-> APP_VERSION]
           held       == [has_result  |-> TRUE,
                          result_type |-> res.result_type,
                          scores      |-> res.scores,
                          ai_comment  |-> ai_comment]
       IN  IF generate_ai_comment(ai) = None
           THEN UNCHANGED <<answer_log, session_state, submitted>>
           ELSE /\ answer_log' = SaveRow(answer_log, answer_row)
                /\ session_state' = [session_state EXCEPT ![s] = held]
                /\ submitted' = [submitted EXCEPT ![s] =
                                    [answers     |-> answers[s],
                                     scores      |-> res.scores,
                                     result_type |-> res.result_type,
                                     ai_comment  |-> ai_comment]]
    /\ last_ai' = ai
    /\ UNCHANGED <<answers, chosen, click_log, pure_vars, label_vars>>

\* the user presses the submit button: the script runs with submitted = True
Submit(s, ai) ==
    /\ answer_log.n < MaxSubmits
    /\ calc_scores(answers[s]).ok
    /\ \E res \in {ScoreSubmission(s)} :
       LET ai_comment == OrEmpty(generate_ai_comment(ai))
           answer_row == [session_id          |-> s,
                          result_type         |-> res.result_type,
                          psychological_score |-> res.scores.psychological,
                          identity_score      |-> res.scores.identity,
                          workstyle_score     |-> res.scores.workstyle,
                          constraint_score    |-> res.scores.constraint,
                          action_score        |-> res.scores.action,
                          ai_comment          |-> ai_comment,
                          app_version         |-> APP_VERSION]
           held       == [has_result  |-> TRUE,
                          result_type |-> res.result_type,
                          scores      |-> res.scores,
                          ai_comment  |-> ai_comment]
       IN  /\ answer_log' = SaveRow(answer_log, answer_row)
           /\ session_state' = [session_state EXCEPT ![s] = held]
           /\ submitted' = [submitted EXCEPT ![s] =
                               [answers     |-> answers[s],
                                scores      |-> res.scores,
                                result_type |-> res.result_type,
                                ai_comment  |-> ai_comment]]
    /\ last_ai' = ai
    /\ UNCHANGED <<answers, chosen, click_log, pure_vars, label_vars>>

\* the user presses a consultant's button, which only the result page shows;
\* the run appends a click row and shows the consultant's link
ClickConsultant(s, c) ==
    /\ View(s).kind = "result"
    /\ click_log.n < MaxClicks
    /\ LET click_row == [session_id    |-> s,
                         result_type   |-> session_state[s].result_type,
                         consultant_id |-> c]
       IN  click_log' = SaveRow(click_log, click_row)
    /\ UNCHANGED <<answers, chosen, session_state, submitted, last_ai, answer_log,
                   pure_vars, label_vars>>

Next ==
    \/ \E s \in Sessions, q \in Questions, v \in score_map : PickOption(s, q, v)
    \/ \E s \in Sessions, ai \in AiOutcomes : Submit(s, ai)
    \/ \E s \in Sessions, c \in Consultants :
          ClickConsultant(s, c)

Spec == Init /\ [][Next]_vars

\* ------------------------------------------------------- claims: the app
\* C4 (as stated): an answer set is scored only when the user has chosen an
\* option for every one of Q1..Q10; no unanswered question is scored with a
\* default value.
C4_OnlyCompleteSetsScored ==
    \A s \in Sessions : submitted[s] # Nothing => chosen[s] = Questions

\* C9: scoring is deterministic and stateless. Two sessions whose latest
\* submits carried the same answers got the same axis scores and the same
\* category, whatever either submitted or held before and however the
\* comment generation went.
C9_SameAnswersSameResult ==
    \A s, t \in Sessions :
       (submitted[s] # Nothing /\ submitted[t] # Nothing
          /\ submitted[s].answers = submitted[t].answers)
       => /\ submitted[s].scores = submitted[t].scores
          /\ submitted[s].result_type = submitted[t].result_type

\* session 1 held a P result (its click row shows it), went back to the
\* untouched form and submitted again with no comment; session 2 submitted
\* the untouched form with a comment
C9_Witness ==
    /\ click_log.n = 1
    /\ click_log.last.session_id = "s1"
    /\ click_log.last.result_type = "P"
    /\ submitted["s1"] # Nothing
    /\ submitted["s2"] # Nothing
    /\ submitted["s1"].answers = submitted["s2"].answers
    /\ submitted["s1"].ai_comment = ""
    /\ submitted["s2"].ai_comment = "comment"
    /\ submitted["s1"].result_type = "R"
    /\ submitted["s2"].result_type = "R"

HeldResult(s) ==
    [result_type |-> session_state[s].result_type,
     scores      |-> session_state[s].scores,
     ai_comment  |-> session_state[s].ai_comment]

SubmittedResult(s) ==
    [result_type |-> submitted[s].result_type,
     scores      |-> submitted[s].scores,
     ai_comment  |-> submitted[s].ai_comment]

\* C10: the result a session holds is written only by a submit of that
\* session. Before its first submit a session holds and shows no result;
\* afterwards every run that is not a submit leaves the held result as it
\* is, so the result shown and the result_type of a click row are those of
\* the session's most recent submit.
C10_ResultWrittenOnlyBySubmit ==
    /\ [](\A s \in Sessions :
            IF submitted[s] = Nothing
            THEN session_state[s] = NoResult /\ View(s) = PromptView
            ELSE /\ session_state[s].has_result
                 /\ HeldResult(s) = SubmittedResult(s)
                 /\ View(s).kind = "result"
                 /\ View(s).result_type = submitted[s].result_type)
    /\ [][\A s \in Sessions :
            session_state'[s] # session_state[s]
            => /\ answer_log'.n = answer_log.n + 1
               /\ answer_log'.last.session_id = s]_vars
    /\ [][click_log'.n # click_log.n
            => /\ click_log'.n = click_log.n + 1
               /\ submitted[click_log'.last.session_id] # Nothing
               /\ click_log'.last.result_type
                    = submitted[click_log'.last.session_id].result_type
               /\ session_state' = session_state]_vars

\* session 1 submitted the untouched form (R), then changed Q1 so that the
\* form would now score P, then clicked a consultant: the result is still R
C10_Witness ==
    /\ submitted["s1"] # Nothing
    /\ answers["s1"] # submitted["s1"].answers
    /\ decide_type(calc_scores(answers["s1"]).scores) = "P"
    /\ session_state["s1"].result_type = "R"
    /\ View("s1").result_type = "R"
    /\ click_log.n = 1
    /\ click_log.last.session_id = "s1"
    /\ click_log.last.result_type = "R"

\* the ways the comment call fails that the submit branch sees as None
AiFailures == {"no_key", "raised"}

====
